---------------------------- MODULE Spec2Model ----------------------------
(***************************************************************************)
(* Hall-pass backend (hudsonmp/hallpass): the pass lifecycle handlers of   *)
(* backend/api/v1/passes.py behind the role guard of backend/core/auth.py, *)
(* over a store of profiles, locations and passes.                         *)
(*                                                                         *)
(* Spec      every handler runs as one atomic step.                        *)
(* SpecConc  the handlers' store calls (the read that guards a write, and  *)
(*           the write) are separate steps of concurrent requests.         *)
(***************************************************************************)
EXTENDS Integers, Sequences, FiniteSets, TLC

(***************************************************************************)
(* Bounds of the model.                                                    *)
(***************************************************************************)
MaxPasses == 2      \* rows the passes table may hold
MaxTime   == 2      \* last value of the clock
MaxCalls  == 2      \* requests in flight at once (SpecConc)
MaxChanges == 1     \* profiles the store may hold changed at once (SpecAuth)
MaxRows   == 2      \* rows of the passes table the dashboards read (SpecMetrics)
MaxOutageRows == 1  \* rows of the passes table during a store outage (SpecOutage)

(***************************************************************************)
(* Values.                                                                 *)
(***************************************************************************)
NoId     == "none"          \* a null uuid / text column
NoTime   == -1              \* a null timestamp or integer column
NoPass   == 0               \* no pass id

\* starlette status codes used by the handlers
HTTP_200_OK == 200
HTTP_400_BAD_REQUEST == 400
HTTP_401_UNAUTHORIZED == 401
HTTP_403_FORBIDDEN == 403
HTTP_404_NOT_FOUND == 404
HTTP_500_INTERNAL_SERVER_ERROR == 500

Roles    == {"student", "teacher", "administrator"}
Statuses == {"pending", "approved", "active", "completed", "denied", "expired"}
OpenStatuses     == {"pending", "approved", "active"}
TerminalStatuses == {"completed", "denied", "expired"}

\* verified identities; "u0" holds a valid token but has no row in profiles
Users == {"s1", "t1", "t2", "a1", "u0"}

\* rows of the profiles table (role, school_id)
InitProfiles ==
    [u \in Users \ {"u0"} |->
        CASE u = "s1" -> [role |-> "student",       school_id |-> "A"]
          [] u = "t1" -> [role |-> "teacher",       school_id |-> "A"]
          [] u = "t2" -> [role |-> "teacher",       school_id |-> "A"]
          [] u = "a1" -> [role |-> "administrator", school_id |-> "B"]]

\* rows of the locations table
LocationIds == {"hall", "nurse", "office", "exit", "closed", "gymB"}

Loc(school, dur, appr, act, er, su) ==
    [school_id |-> school, default_duration |-> dur, requires_approval |-> appr,
     is_active |-> act, is_early_release_only |-> er, is_summons_only |-> su]

locations ==
    [l \in LocationIds |->
        CASE l = "hall"   -> Loc("A", 1, TRUE,  TRUE,  FALSE, FALSE)
          [] l = "nurse"  -> Loc("A", 1, FALSE, TRUE,  FALSE, FALSE)
          [] l = "office" -> Loc("A", 1, FALSE, TRUE,  FALSE, TRUE)
          [] l = "exit"   -> Loc("A", 2, FALSE, TRUE,  TRUE,  FALSE)
          [] l = "closed" -> Loc("A", 1, FALSE, FALSE, FALSE, FALSE)
          [] l = "gymB"   -> Loc("B", 1, TRUE,  TRUE,  FALSE, FALSE)]

\* approval_notes query parameter of approve_pass
Notes == {NoId, "ok"}

\* request bodies: the fields of PassCreateRequest; a flag is given for the
\* location it opens, and a start time with the requests for the nurse
PassCreateRequest ==
    {req \in [location_id          : LocationIds \cup {"nowhere"},
              student_reason       : {NoId},
              requested_start_time : {NoTime, 0},
              is_summons           : BOOLEAN,
              is_early_release     : BOOLEAN] :
        /\ req.is_summons => req.location_id = "office"
        /\ req.is_early_release => req.location_id = "exit"
        /\ req.requested_start_time # NoTime <=> req.location_id = "nurse"}

PassIds == 1..(MaxPasses + 1)   \* ids a caller may name; the last never exists

VARIABLES
    profiles,   \* profiles table: user id -> [role, school_id]
    passes,     \* passes table: sequence of rows, a pass's id is its index
    now,        \* the clock read by datetime.utcnow()
    calls       \* requests in flight between two store calls (SpecConc)

vars == <<profiles, passes, now, calls>>

Resp(code, detail) == [code |-> code, detail |-> detail]
OK == Resp(HTTP_200_OK, "ok")


(***************************************************************************)
(* backend/core/auth.py: identity -> principal, and the role guard.        *)
(***************************************************************************)
\* get_current_user: the profile lookup for a verified identity
get_current_user(c) ==
    IF c \notin DOMAIN profiles
    THEN Resp(HTTP_403_FORBIDDEN, "profile_not_found")
    ELSE OK

\* _role_dependency: administrators pass every guard, others need their role listed
role_allowed(required_roles, user_role) ==
    \/ user_role = "administrator"
    \/ user_role \in required_roles

\* require_role that authorizes against the profile as it was at the start
require_role_stale(required_roles, c) ==
    LET found == get_current_user(c) IN
    IF found.code # HTTP_200_OK THEN found
    ELSE IF ~role_allowed(required_roles, InitProfiles[c].role)
         THEN Resp(HTTP_403_FORBIDDEN, "forbidden_role")
         ELSE OK

require_role(required_roles, c) ==
    LET found == get_current_user(c) IN
    IF found.code # HTTP_200_OK THEN found
    ELSE IF ~role_allowed(required_roles, profiles[c].role)
         THEN Resp(HTTP_403_FORBIDDEN, "forbidden_role")
         ELSE OK

require_student_role(c) == require_role({"student"}, c)
require_teacher_role(c) == require_role({"teacher", "administrator"}, c)

(***************************************************************************)
(* The passes table.                                                       *)
(***************************************************************************)
\* a row as inserted: the columns the handler gives, null for the others
PassRow(student, location, school, st, start, end, reason, su, er, approver, at, notes) ==
    [student_id |-> student, location_id |-> location, school_id |-> school,
     status |-> st, created_at |-> NoTime,
     requested_start_time |-> start, requested_end_time |-> end,
     student_reason |-> reason, is_summons |-> su, is_early_release |-> er,
     approver_id |-> approver, approved_at |-> at, approval_notes |-> notes,
     actual_start_time |-> NoTime, actual_end_time |-> NoTime,
     duration_minutes |-> NoTime, verification_code |-> 0]

Exists(pid) == pid \in 1..Len(passes)

\* table('passes').insert(row): created_at defaults to the time of the insert
insert(row) == Append(passes, [row EXCEPT !.created_at = now])

\* table('passes').update(changes).eq('id', pid)
update(pid, row) == [passes EXCEPT ![pid] = row]

\* select('id').eq('student_id', s).in_('status', ['pending','approved','active'])
active_pass_response(student) ==
    {i \in 1..Len(passes) :
        passes[i].student_id = student /\ passes[i].status \in OpenStatuses}

\* location_response without the school_id filter
location_response_any_school(location_id, school) ==
    IF location_id \in LocationIds THEN location_id ELSE NoId

\* select('*').eq('id', location_id).eq('school_id', school).single()
location_response(location_id, school) ==
    IF location_id \in LocationIds /\ locations[location_id].school_id = school
    THEN location_id ELSE NoId

(***************************************************************************)
(* request_pass (POST /passes/request)                                     *)
(***************************************************************************)
\* special_requirements without the early-release check
special_requirements_summons_only(location, req) ==
    IF location.is_summons_only /\ ~req.is_summons
    THEN Resp(HTTP_400_BAD_REQUEST, "summons_only")
    ELSE OK

\* the special-location checks of request_pass
special_requirements(location, req) ==
    IF location.is_summons_only /\ ~req.is_summons
    THEN Resp(HTTP_400_BAD_REQUEST, "summons_only")
    ELSE IF location.is_early_release_only /\ ~req.is_early_release
    THEN Resp(HTTP_400_BAD_REQUEST, "early_release_only")
    ELSE OK

\* request_conflict with the lookup narrowed to status 'active'
request_conflict_active_only(student) ==
    IF \E i \in 1..Len(passes) :
            passes[i].student_id = student /\ passes[i].status = "active"
    THEN Resp(HTTP_400_BAD_REQUEST, "already_active")
    ELSE OK

\* request_conflict that counts every pass of the student, finished or not
request_conflict_any_status(student) ==
    IF \E i \in 1..Len(passes) : passes[i].student_id = student
    THEN Resp(HTTP_400_BAD_REQUEST, "already_active")
    ELSE OK

\* the open-pass check of request_pass
request_conflict(student) ==
    IF active_pass_response(student) # {}
    THEN Resp(HTTP_400_BAD_REQUEST, "already_active")
    ELSE OK

\* everything request_pass does before it builds the row
request_pass_checks(c, req) ==
    LET auth == require_student_role(c) IN
    IF auth.code # HTTP_200_OK THEN auth
    ELSE LET lid == location_response(req.location_id, profiles[c].school_id) IN
         IF lid = NoId THEN Resp(HTTP_404_NOT_FOUND, "location_not_found")
         ELSE LET special == special_requirements(locations[lid], req) IN
              IF special.code # HTTP_200_OK THEN special
              ELSE request_conflict(c)

\* start_time = pass_request.requested_start_time or datetime.utcnow()
start_time(req) ==
    IF req.requested_start_time # NoTime THEN req.requested_start_time ELSE now

\* end_time counted from the clock even when the request gives a start
end_time_from_now(req, location) == now + location.default_duration

\* end_time = start_time + timedelta(minutes=location['default_duration'])
end_time(req, location) == start_time(req) + location.default_duration

\* request_status that leaves approved_at out of an auto-approved pass
request_status_no_stamp(location) ==
    IF location.requires_approval
    THEN [pass_status |-> "pending",  approved_at |-> NoTime]
    ELSE [pass_status |-> "approved", approved_at |-> NoTime]

\* status and approved_at of a requested pass
request_status(location) ==
    IF location.requires_approval
    THEN [pass_status |-> "pending",  approved_at |-> NoTime]
    ELSE [pass_status |-> "approved", approved_at |-> now]

\* pass_data of request_pass
request_pass_data(c, req) ==
    LET location == locations[req.location_id]
        st       == request_status(location) IN
    PassRow(c, req.location_id, profiles[c].school_id, st.pass_status,
            start_time(req), end_time(req, location),
            req.student_reason, req.is_summons, req.is_early_release,
            NoId, st.approved_at, NoId)

(***************************************************************************)
(* issue_pass (POST /passes/issue)                                         *)
(***************************************************************************)
\* select('*').eq('id', student_id).eq('school_id', school).eq('role','student').single()
student_response(student_id, school) ==
    IF /\ student_id \in DOMAIN profiles
       /\ profiles[student_id].school_id = school
       /\ profiles[student_id].role = "student"
    THEN student_id ELSE NoId

issue_conflict(student) ==
    IF active_pass_response(student) # {}
    THEN Resp(HTTP_400_BAD_REQUEST, "student_already_active")
    ELSE OK

\* everything issue_pass does before it builds the row; pass_request is a
\* PassCreateRequest, and reading an attribute the model lacks raises, which the
\* handler's except clause turns into a 500
issue_pass_checks(c, req) ==
    LET auth == require_teacher_role(c) IN
    IF auth.code # HTTP_200_OK THEN auth
    ELSE IF "student_id" \notin DOMAIN req
    THEN Resp(HTTP_500_INTERNAL_SERVER_ERROR, "error_issuing_pass")
    ELSE IF student_response(req.student_id, profiles[c].school_id) = NoId
    THEN Resp(HTTP_404_NOT_FOUND, "student_not_found")
    ELSE IF location_response(req.location_id, profiles[c].school_id) = NoId
    THEN Resp(HTTP_404_NOT_FOUND, "location_not_found")
    ELSE issue_conflict(req.student_id)

\* pass_data of issue_pass
issue_pass_data(c, req) ==
    LET location == locations[req.location_id] IN
    PassRow(req.student_id, req.location_id, profiles[c].school_id, "approved",
            start_time(req), end_time(req, location),
            req.student_reason, req.is_summons, req.is_early_release,
            c, now, "issued_by_staff")

(***************************************************************************)
(* approve_pass (PATCH /passes/{id}/approve)                               *)
(***************************************************************************)
\* approve_pass_response without the school_id filter
approve_pass_response_any_school(pid, school) ==
    IF Exists(pid) THEN pid ELSE NoPass

\* select('*').eq('id', pid).eq('school_id', school).single()
approve_pass_response(pid, school) ==
    IF Exists(pid) /\ passes[pid].school_id = school THEN pid ELSE NoPass

\* approve_status_check without the check
approve_status_check_off(st) == OK

\* approve_status_check that also lets an approved pass through
approve_status_check_reapprove(st) ==
    IF st \notin {"pending", "approved"}
    THEN Resp(HTTP_400_BAD_REQUEST, "cannot_approve")
    ELSE OK

\* the status check of approve_pass
approve_status_check(st) ==
    IF st # "pending"
    THEN Resp(HTTP_400_BAD_REQUEST, "cannot_approve")
    ELSE OK

approve_pass_checks(c, pid) ==
    LET auth == require_teacher_role(c) IN
    IF auth.code # HTTP_200_OK THEN auth
    ELSE IF approve_pass_response(pid, profiles[c].school_id) = NoPass
    THEN Resp(HTTP_404_NOT_FOUND, "pass_not_found")
    ELSE approve_status_check(passes[pid].status)

\* the columns approve_pass writes
approve_changes(row, c, notes) ==
    [row EXCEPT !.status = "approved", !.approver_id = c,
                !.approved_at = now, !.approval_notes = notes]

(***************************************************************************)
(* activate_pass (PATCH /passes/{id}/activate)                             *)
(***************************************************************************)
\* activate_pass_response without the student_id filter
activate_pass_response_any_holder(pid, c) ==
    IF Exists(pid) THEN pid ELSE NoPass

\* select('*').eq('id', pid).eq('student_id', caller).single()
activate_pass_response(pid, c) ==
    IF Exists(pid) /\ passes[pid].student_id = c THEN pid ELSE NoPass

\* activate_status_check that rejects only a pending pass
activate_status_check_not_pending(st) ==
    IF st = "pending"
    THEN Resp(HTTP_400_BAD_REQUEST, "cannot_activate")
    ELSE OK

\* the status check of activate_pass
activate_status_check(st) ==
    IF st # "approved"
    THEN Resp(HTTP_400_BAD_REQUEST, "cannot_activate")
    ELSE OK

activate_pass_checks(c, pid) ==
    LET auth == require_student_role(c) IN
    IF auth.code # HTTP_200_OK THEN auth
    ELSE IF activate_pass_response(pid, c) = NoPass
    THEN Resp(HTTP_404_NOT_FOUND, "pass_not_found")
    ELSE activate_status_check(passes[pid].status)

\* activate_changes without the start stamp
activate_changes_no_start(row) == [row EXCEPT !.status = "active"]

\* the columns activate_pass writes
activate_changes(row) ==
    [row EXCEPT !.status = "active", !.actual_start_time = now]

\* a verification code no pass carries
fresh_code ==
    1 + Cardinality({passes[i].verification_code : i \in 1..Len(passes)} \ {0})

\* verification_trigger that hands out the same code every time
verification_trigger_same_code(old, new) ==
    IF new.status = "active" /\ old.status # "active"
    THEN [new EXCEPT !.verification_code = 1]
    ELSE new

\* the database trigger activate_pass relies on: a row entering 'active' is
\* given its verification code
verification_trigger(old, new) ==
    IF new.status = "active" /\ old.status # "active"
    THEN [new EXCEPT !.verification_code = fresh_code]
    ELSE new

(***************************************************************************)
(* Transitions the schemas declare (PassStatusUpdate, PassStatusEnum) but  *)
(* the router does not serve: deny, complete, expire.                      *)
(***************************************************************************)
\* deny_status_check that also lets an approved pass through
deny_status_check_approved_too(st) ==
    IF st \notin {"pending", "approved"}
    THEN Resp(HTTP_400_BAD_REQUEST, "cannot_deny")
    ELSE OK

deny_status_check(st) ==
    IF st # "pending"
    THEN Resp(HTTP_400_BAD_REQUEST, "cannot_deny")
    ELSE OK

deny_pass_checks(c, pid) ==
    LET auth == require_teacher_role(c) IN
    IF auth.code # HTTP_200_OK THEN auth
    ELSE IF approve_pass_response(pid, profiles[c].school_id) = NoPass
    THEN Resp(HTTP_404_NOT_FOUND, "pass_not_found")
    ELSE deny_status_check(passes[pid].status)

deny_changes(row) == [row EXCEPT !.status = "denied"]

complete_pass_checks(pid) ==
    IF ~Exists(pid) THEN Resp(HTTP_404_NOT_FOUND, "pass_not_found")
    ELSE IF passes[pid].status # "active"
    THEN Resp(HTTP_400_BAD_REQUEST, "cannot_complete")
    ELSE OK

complete_changes(row) ==
    [row EXCEPT !.status = "completed", !.actual_end_time = now,
                !.duration_minutes =
                    IF row.actual_start_time # NoTime
                    THEN now - row.actual_start_time
                    ELSE row.duration_minutes]

\* the school's grace period past a pass's end time
grace_period(school) == IF school = "A" THEN 0 ELSE 1

\* the end time expiry counts from: the actual one when stamped, else the requested
expiry_base(row) ==
    IF row.actual_end_time # NoTime THEN row.actual_end_time
    ELSE row.requested_end_time

\* expire_pass_checks without the wait for the end time and the grace period
expire_pass_checks_any_time(pid) ==
    IF ~Exists(pid) THEN Resp(HTTP_404_NOT_FOUND, "pass_not_found")
    ELSE IF passes[pid].status \notin {"approved", "active"}
    THEN Resp(HTTP_400_BAD_REQUEST, "cannot_expire")
    ELSE OK

expire_pass_checks(pid) ==
    IF ~Exists(pid) THEN Resp(HTTP_404_NOT_FOUND, "pass_not_found")
    ELSE IF \/ passes[pid].status \notin {"approved", "active"}
            \/ ~(now > expiry_base(passes[pid]) + grace_period(passes[pid].school_id))
    THEN Resp(HTTP_400_BAD_REQUEST, "cannot_expire")
    ELSE OK

expire_changes(row) == [row EXCEPT !.status = "expired"]

(***************************************************************************)
(* State.                                                                  *)
(***************************************************************************)
Handlers == 1..MaxCalls

Idle == [pc |-> "idle"]

Init ==
    /\ profiles = InitProfiles
    /\ passes = <<>>
    /\ now = 1
    /\ calls = [h \in Handlers |-> Idle]

\* the clock advances
Tick ==
    /\ now < MaxTime
    /\ now' = now + 1
    /\ UNCHANGED <<profiles, passes, calls>>

(***************************************************************************)
(* Spec: each handler as one atomic step.                                  *)
(***************************************************************************)
request_pass(c, req) ==
    LET r == request_pass_checks(c, req) IN
    /\ IF r.code = HTTP_200_OK
       THEN /\ Len(passes) < MaxPasses
            /\ passes' = insert(request_pass_data(c, req))
       ELSE /\ passes' = passes
    /\ UNCHANGED <<profiles, now, calls>>

issue_pass(c, req) ==
    LET r == issue_pass_checks(c, req) IN
    /\ IF r.code = HTTP_200_OK
       THEN /\ Len(passes) < MaxPasses
            /\ passes' = insert(issue_pass_data(c, req))
       ELSE /\ passes' = passes
    /\ UNCHANGED <<profiles, now, calls>>

\* approve_pass that writes the approval before it looks at the status
approve_pass_writes_first(c, pid, notes) ==
    /\ passes' = IF /\ require_teacher_role(c).code = HTTP_200_OK
                    /\ approve_pass_response(pid, profiles[c].school_id) # NoPass
                 THEN update(pid, approve_changes(passes[pid], c, notes))
                 ELSE passes
    /\ UNCHANGED <<profiles, now, calls>>

approve_pass(c, pid, notes) ==
    LET r == approve_pass_checks(c, pid) IN
    /\ passes' = IF r.code = HTTP_200_OK
                 THEN update(pid, approve_changes(passes[pid], c, notes))
                 ELSE passes
    /\ UNCHANGED <<profiles, now, calls>>

activate_pass(c, pid) ==
    LET r == activate_pass_checks(c, pid) IN
    /\ passes' = IF r.code = HTTP_200_OK
                 THEN update(pid, verification_trigger(passes[pid], activate_changes(passes[pid])))
                 ELSE passes
    /\ UNCHANGED <<profiles, now, calls>>

DenyPass(c, pid) ==
    LET r == deny_pass_checks(c, pid) IN
    /\ passes' = IF r.code = HTTP_200_OK
                 THEN update(pid, deny_changes(passes[pid]))
                 ELSE passes
    /\ UNCHANGED <<profiles, now, calls>>

CompletePass(pid) ==
    LET r == complete_pass_checks(pid) IN
    /\ passes' = IF r.code = HTTP_200_OK
                 THEN update(pid, complete_changes(passes[pid]))
                 ELSE passes
    /\ UNCHANGED <<profiles, now, calls>>

ExpirePass(pid) ==
    LET r == expire_pass_checks(pid) IN
    /\ passes' = IF r.code = HTTP_200_OK
                 THEN update(pid, expire_changes(passes[pid]))
                 ELSE passes
    /\ UNCHANGED <<profiles, now, calls>>

Next ==
    \/ Tick
    \/ \E c \in Users, req \in PassCreateRequest : request_pass(c, req)
    \/ \E c \in Users, req \in PassCreateRequest : issue_pass(c, req)
    \/ \E c \in Users, pid \in PassIds, notes \in Notes : approve_pass(c, pid, notes)
    \/ \E c \in Users, pid \in PassIds : activate_pass(c, pid)
    \/ \E c \in Users, pid \in PassIds : DenyPass(c, pid)
    \/ \E pid \in PassIds : CompletePass(pid)
    \/ \E pid \in PassIds : ExpirePass(pid)

Spec == Init /\ [][Next]_vars

(***************************************************************************)
(* SpecConc: a handler's guarding read and its write are two store calls,  *)
(* and the calls of concurrent requests interleave.                        *)
(***************************************************************************)
\* a new request is served by the first idle handler
Free(h) ==
    /\ calls[h].pc = "idle"
    /\ \A g \in Handlers : g < h => calls[g].pc # "idle"

\* request_pass up to its open-pass lookup; pass_data is built from what it read
request_select(h, c, req) ==
    /\ Free(h)
    /\ calls' = IF request_pass_checks(c, req).code = HTTP_200_OK
                THEN [calls EXCEPT ![h] = [pc |-> "request_insert",
                                           row |-> request_pass_data(c, req)]]
                ELSE calls
    /\ UNCHANGED <<profiles, passes, now>>

\* request_pass: table('passes').insert(pass_data)
request_insert(h) ==
    /\ calls[h].pc = "request_insert"
    /\ Len(passes) < MaxPasses
    /\ passes' = insert(calls[h].row)
    /\ calls' = [calls EXCEPT ![h] = Idle]
    /\ UNCHANGED <<profiles, now>>

\* approve_pass up to its status check
approve_select(h, c, pid, notes) ==
    /\ Free(h)
    /\ calls' = IF approve_pass_checks(c, pid).code = HTTP_200_OK
                THEN [calls EXCEPT ![h] = [pc |-> "approve_update", caller |-> c,
                                           pid |-> pid, notes |-> notes,
                                           status_read |-> passes[pid].status]]
                ELSE calls
    /\ UNCHANGED <<profiles, passes, now>>

\* approve_pass: table('passes').update({...}).eq('id', pass_id)
approve_update(h) ==
    /\ calls[h].pc = "approve_update"
    /\ passes' = update(calls[h].pid,
                        approve_changes(passes[calls[h].pid], calls[h].caller, calls[h].notes))
    /\ calls' = [calls EXCEPT ![h] = Idle]
    /\ UNCHANGED <<profiles, now>>

\* activate_pass up to its status check
activate_select(h, c, pid) ==
    /\ Free(h)
    /\ calls' = IF activate_pass_checks(c, pid).code = HTTP_200_OK
                THEN [calls EXCEPT ![h] = [pc |-> "activate_update", pid |-> pid,
                                           status_read |-> passes[pid].status]]
                ELSE calls
    /\ UNCHANGED <<profiles, passes, now>>

\* activate_pass: table('passes').update({...}).eq('id', pass_id)
activate_update(h) ==
    /\ calls[h].pc = "activate_update"
    /\ passes' = update(calls[h].pid,
                        verification_trigger(passes[calls[h].pid],
                                             activate_changes(passes[calls[h].pid])))
    /\ calls' = [calls EXCEPT ![h] = Idle]
    /\ UNCHANGED <<profiles, now>>

NextConc ==
    \/ \E h \in Handlers, c \in Users, req \in PassCreateRequest : request_select(h, c, req)
    \/ \E h \in Handlers : request_insert(h)
    \/ \E c \in Users, req \in PassCreateRequest : issue_pass(c, req)
    \/ \E h \in Handlers, c \in Users, pid \in PassIds, notes \in Notes :
            approve_select(h, c, pid, notes)
    \/ \E h \in Handlers : approve_update(h)
    \/ \E h \in Handlers, c \in Users, pid \in PassIds : activate_select(h, c, pid)
    \/ \E h \in Handlers : activate_update(h)

SpecConc == Init /\ [][NextConc]_vars

(***************************************************************************)
(* backend/api/v1/auth.py: the guard of the dashboards and of the demo     *)
(* endpoints, from the bearer token to the role check.                     *)
(***************************************************************************)
\* bearer tokens: one per identity, one the auth service rejects, and one
\* it answers without a user
Tokens == Users \cup {"expired", "nouser"}

\* supabase auth.get_user(token): the user, no user, or an exception
get_user(token) ==
    IF token \in Users THEN token
    ELSE IF token = "nouser" THEN NoId
    ELSE "raises"

\* core/auth.py get_current_user, from the token on
get_current_user_token(token) ==
    LET user == get_user(token) IN
    IF user = "raises" \/ user = NoId
    THEN Resp(HTTP_401_UNAUTHORIZED, "invalid_or_expired_token")
    ELSE get_current_user(user)

\* api/v1/auth.py get_current_user: the branch for a missing profile names
\* status.HTTP_403_UNAUTHORIZED, which starlette does not define; the
\* AttributeError falls to the handler's except clause
auth_get_current_user(token) ==
    LET user == get_user(token) IN
    IF user = "raises"
    THEN Resp(HTTP_401_UNAUTHORIZED, "invalid_authentication_credentials")
    ELSE IF user = NoId
    THEN Resp(HTTP_401_UNAUTHORIZED, "invalid_or_expired_token")
    ELSE IF user \notin DOMAIN profiles
    THEN Resp(HTTP_401_UNAUTHORIZED, "invalid_authentication_credentials")
    ELSE OK

\* role_dependency without the administrator override
role_dependency_listed_only(required_roles, user_role) ==
    IF user_role \notin required_roles
    THEN Resp(HTTP_403_FORBIDDEN,
              [required_roles |-> required_roles, user_role |-> user_role])
    ELSE OK

\* _role_dependency: the detail of a denial is the text
\* "Forbidden: requires role {required_roles}, but user has role '{user_role}'"
role_dependency(required_roles, user_role) ==
    IF user_role = "administrator" THEN OK
    ELSE IF user_role \notin required_roles
    THEN Resp(HTTP_403_FORBIDDEN,
              [required_roles |-> required_roles, user_role |-> user_role])
    ELSE OK

\* auth_require_role that stops after the profile lookup
auth_require_role_any_role(required_roles, token) == auth_get_current_user(token)

\* require_role(required_roles) as a dependency of an endpoint
auth_require_role(required_roles, token) ==
    LET found == auth_get_current_user(token) IN
    IF found.code # HTTP_200_OK THEN found
    ELSE role_dependency(required_roles, profiles[get_user(token)].role)

require_student(token) == auth_require_role({"student"}, token)
require_teacher(token) == auth_require_role({"teacher", "administrator"}, token)
require_admin(token)   == auth_require_role({"administrator"}, token)

\* the response an endpoint has given, kept in the first handler's slot
Responded(endpoint, token, required_roles, response) ==
    [pc |-> "responded", endpoint |-> endpoint, token |-> token,
     required_roles |-> required_roles, response |-> response]

\* GET /auth/student-only
student_only_endpoint(token) ==
    /\ calls' = [calls EXCEPT ![1] =
                    Responded("student-only", token, {"student"}, require_student(token))]
    /\ UNCHANGED <<profiles, passes, now>>

\* GET /auth/teacher-only
teacher_only_endpoint(token) ==
    /\ calls' = [calls EXCEPT ![1] =
                    Responded("teacher-only", token, {"teacher", "administrator"},
                              require_teacher(token))]
    /\ UNCHANGED <<profiles, passes, now>>

\* GET /auth/admin-only
admin_only_endpoint(token) ==
    /\ calls' = [calls EXCEPT ![1] =
                    Responded("admin-only", token, {"administrator"}, require_admin(token))]
    /\ UNCHANGED <<profiles, passes, now>>

\* the store changes the role and school of a profile (no handler does)
update_profile(u, role, school) ==
    /\ u \in DOMAIN profiles
    /\ profiles' = [profiles EXCEPT ![u] = [role |-> role, school_id |-> school]]
    /\ Cardinality({v \in DOMAIN profiles : profiles'[v] # InitProfiles[v]}) <= MaxChanges
    /\ UNCHANGED <<passes, now, calls>>

NextAuth ==
    \/ \E token \in Tokens : student_only_endpoint(token)
    \/ \E token \in Tokens : teacher_only_endpoint(token)
    \/ \E token \in Tokens : admin_only_endpoint(token)
    \/ \E u \in Users, role \in Roles, school \in {"A", "B"} : update_profile(u, role, school)

SpecAuth == Init /\ [][NextAuth]_vars

\* SpecRefresh: passes are requested and approved while the store changes
\* profiles
NextRefresh ==
    \/ \E u \in Users, role \in Roles, school \in {"A", "B"} : update_profile(u, role, school)
    \/ \E c \in Users, req \in PassCreateRequest : request_pass(c, req)
    \/ \E c \in Users, pid \in PassIds, notes \in Notes : approve_pass(c, pid, notes)

SpecRefresh == Init /\ [][NextRefresh]_vars

(***************************************************************************)
(* backend/api/v1/dashboards.py: the metrics of the teacher and the        *)
(* administrator dashboard. Timestamps count hours; durations are minutes; *)
(* an average is kept in hundredths (tenths for the per-teacher counts).   *)
(***************************************************************************)
HoursPerDay   == 24     \* datetime: created_at.hour is the hour of the day
MinutesPerHour == 60    \* total_seconds() / 60
WeekDays      == 7      \* timedelta(days=7)
MonthDays     == 30     \* timedelta(days=30)
TopHours      == 5      \* sorted(...)[:5]
Clock         == 800    \* datetime.utcnow() when the dashboards are read

today_start(t) == t - (t % HoursPerDay)
week_ago(t)    == t - WeekDays * HoursPerDay
month_ago(t)   == t - MonthDays * HoursPerDay

\* Python truth of an optional number: None and 0 are false
Truthy(x) == x # NoTime /\ x # 0

\* .gte(column, bound): a null column matches no bound
gte(x, bound) == x # NoTime /\ x >= bound

\* the rows of the passes table a filter keeps, in the order of the store
Select(Test(_)) == SelectSeq(passes, Test)

RECURSIVE Sum(_)
Sum(seq) == IF seq = <<>> THEN 0 ELSE Head(seq) + Sum(Tail(seq))

\* round(total / n, digits), as a count of 10^-digits (scale 100 or 10)
Round(total, n, scale) == (2 * total * scale + n) \div (2 * n)

\* the duration loop of the metrics functions: the minutes each row adds
RECURSIVE durations(_)
durations(rows) ==
    IF rows = <<>> THEN <<>>
    ELSE LET pass_data == Head(rows) IN
         IF pass_data.actual_start_time # NoTime /\ pass_data.actual_end_time # NoTime
         THEN <<(pass_data.actual_end_time - pass_data.actual_start_time) * MinutesPerHour>>
              \o durations(Tail(rows))
         ELSE IF Truthy(pass_data.duration_minutes)
         THEN <<pass_data.duration_minutes>> \o durations(Tail(rows))
         ELSE durations(Tail(rows))

\* avg_duration as returned: sum/len if the list is not empty, and
\* round(avg, 2) only if that average is not 0
avg_duration(rows) ==
    LET d == durations(rows) IN
    IF d = <<>> THEN NoTime
    ELSE IF Sum(d) = 0 THEN NoTime
    ELSE Round(Sum(d), Len(d), 100)

get_teacher_metrics(teacher_id, t) ==
    LET week_passes  == Select(LAMBDA row : row.approver_id = teacher_id
                                            /\ gte(row.approved_at, week_ago(t)))
        month_passes == Select(LAMBDA row : row.approver_id = teacher_id
                                            /\ gte(row.approved_at, month_ago(t))) IN
    [week_count   |-> Len(week_passes),
     month_count  |-> Len(month_passes),
     avg_duration |-> avg_duration(month_passes),
     has_data     |-> Len(month_passes) > 0]

\* len(passes) / len(teacher_ids), then round(avg, 1) if avg else None
avg_count(count, teachers) ==
    IF count = 0 THEN NoTime ELSE Round(count, teachers, 10)

get_school_teacher_averages(school_id, t) ==
    LET teacher_ids  == {u \in DOMAIN profiles :
                            profiles[u].school_id = school_id /\ profiles[u].role = "teacher"}
        week_passes  == Select(LAMBDA row : row.approver_id \in teacher_ids
                                            /\ gte(row.approved_at, week_ago(t)))
        month_passes == Select(LAMBDA row : row.approver_id \in teacher_ids
                                            /\ gte(row.approved_at, month_ago(t))) IN
    IF teacher_ids = {}
    THEN [avg_week_count |-> NoTime, avg_month_count |-> NoTime,
          avg_duration |-> NoTime, has_data |-> FALSE]
    ELSE [avg_week_count  |-> avg_count(Len(week_passes), Cardinality(teacher_ids)),
          avg_month_count |-> avg_count(Len(month_passes), Cardinality(teacher_ids)),
          avg_duration    |-> avg_duration(month_passes),
          has_data        |-> Len(month_passes) > 0]

get_admin_metrics(school_id, t) ==
    LET today_passes == Select(LAMBDA row : row.school_id = school_id
                                            /\ gte(row.created_at, today_start(t)))
        week_passes  == Select(LAMBDA row : row.school_id = school_id
                                            /\ gte(row.created_at, week_ago(t)))
        month_passes == Select(LAMBDA row : row.school_id = school_id
                                            /\ gte(row.created_at, month_ago(t))) IN
    [today_count  |-> Len(today_passes),
     week_count   |-> Len(week_passes),
     month_count  |-> Len(month_passes),
     avg_duration |-> avg_duration(month_passes),
     has_data     |-> Len(month_passes) > 0]

\* the hour of the day a row was created
hour_of(row) == row.created_at % HoursPerDay

\* the keys of hour_counts, in the order the loop first meets them
RECURSIVE hour_keys(_, _)
hour_keys(rows, seen) ==
    IF rows = <<>> THEN <<>>
    ELSE IF hour_of(Head(rows)) \in seen THEN hour_keys(Tail(rows), seen)
    ELSE <<hour_of(Head(rows))>> \o hour_keys(Tail(rows), seen \cup {hour_of(Head(rows))})

hour_count(rows, hour) == Len(SelectSeq(rows, LAMBDA row : hour_of(row) = hour))

\* sorted(items, key=count, reverse=True): a stable sort, so hours with equal
\* counts stay in the order of the dictionary
RECURSIVE sorted_by_count(_, _)
sorted_by_count(keys, rows) ==
    IF keys = <<>> THEN <<>>
    ELSE LET best == CHOOSE i \in 1..Len(keys) :
                        /\ \A j \in 1..Len(keys) :
                              hour_count(rows, keys[j]) <= hour_count(rows, keys[i])
                        /\ \A j \in 1..(i - 1) :
                              hour_count(rows, keys[j]) < hour_count(rows, keys[i])
             rest == [j \in 1..(Len(keys) - 1) |-> IF j < best THEN keys[j] ELSE keys[j + 1]]
         IN <<keys[best]>> \o sorted_by_count(rest, rows)

\* the 12-hour label of an hour: the number shown and AM or PM
time_str(hour) ==
    IF hour = 0 THEN <<12, "AM">>
    ELSE IF hour < 12 THEN <<hour, "AM">>
    ELSE IF hour = 12 THEN <<12, "PM">>
    ELSE <<hour - 12, "PM">>

get_peak_request_times(school_id, t) ==
    LET rows == Select(LAMBDA row : row.school_id = school_id
                                    /\ gte(row.created_at, month_ago(t)))
        sorted_hours == sorted_by_count(hour_keys(rows, {}), rows)
        top == SubSeq(sorted_hours, 1,
                      IF Len(sorted_hours) < TopHours THEN Len(sorted_hours) ELSE TopHours)
    IN [i \in 1..Len(top) |->
           [time |-> time_str(top[i]), hour |-> top[i], count |-> hour_count(rows, top[i])]]

\* an Optional[int] field of TeacherMetrics given a float (here in tenths)
int_field(tenths) == IF tenths = NoTime THEN NoTime ELSE tenths \div 10

\* the body of get_teacher_dashboard
teacher_dashboard(user) ==
    LET teacher_metrics == get_teacher_metrics(user, now)
        school_metrics  == get_school_teacher_averages(profiles[user].school_id, now)
        data_available  == teacher_metrics.has_data \/ school_metrics.has_data IN
    [code |-> HTTP_200_OK, detail |-> "ok", user_role |-> profiles[user].role,
     metrics |-> [passes_granted_week         |-> teacher_metrics.week_count,
                  passes_granted_month        |-> teacher_metrics.month_count,
                  avg_absence_duration        |-> teacher_metrics.avg_duration,
                  school_avg_passes_week      |-> int_field(school_metrics.avg_week_count),
                  school_avg_passes_month     |-> int_field(school_metrics.avg_month_count),
                  school_avg_absence_duration |-> school_metrics.avg_duration,
                  data_available              |-> data_available],
     message |-> IF data_available THEN NoId ELSE "Not Enough Data"]

\* the body of get_admin_dashboard
admin_dashboard(user) ==
    LET admin_metrics == get_admin_metrics(profiles[user].school_id, now)
        peak_times    == get_peak_request_times(profiles[user].school_id, now) IN
    [code |-> HTTP_200_OK, detail |-> "ok", user_role |-> profiles[user].role,
     metrics |-> [total_passes_today |-> admin_metrics.today_count,
                  total_passes_week  |-> admin_metrics.week_count,
                  total_passes_month |-> admin_metrics.month_count,
                  avg_pass_duration  |-> admin_metrics.avg_duration,
                  peak_request_times |-> peak_times,
                  data_available     |-> admin_metrics.has_data],
     message |-> IF admin_metrics.has_data THEN NoId ELSE "Not Enough Data"]

\* GET /dashboards/teacher
get_teacher_dashboard(token) ==
    LET auth == require_teacher(token) IN
    /\ calls' = [calls EXCEPT ![1] =
                    Responded("teacher", token, {"teacher", "administrator"},
                              IF auth.code # HTTP_200_OK THEN auth
                              ELSE teacher_dashboard(get_user(token)))]
    /\ UNCHANGED <<profiles, passes, now>>

\* GET /dashboards/admin
get_admin_dashboard(token) ==
    LET auth == require_admin(token) IN
    /\ calls' = [calls EXCEPT ![1] =
                    Responded("admin", token, {"administrator"},
                              IF auth.code # HTTP_200_OK THEN auth
                              ELSE admin_dashboard(get_user(token)))]
    /\ UNCHANGED <<profiles, passes, now>>

\* rows the passes table may hold when the dashboards are read: created long
\* ago, within the month, within the week or today; not approved or approved
\* by staff of the school; not started, under way, or ended
MetricRow(school, created, approver, start, end, dur) ==
    [PassRow(IF school = "A" THEN "s1" ELSE "a1",
             IF school = "A" THEN "hall" ELSE "gymB", school,
             IF end # NoTime THEN "completed"
             ELSE IF start # NoTime THEN "active"
             ELSE IF approver # NoId THEN "approved" ELSE "pending",
             created, created + 1, NoId, FALSE, FALSE,
             approver, IF approver # NoId THEN created ELSE NoTime, NoId)
        EXCEPT !.created_at = created, !.actual_start_time = start,
               !.actual_end_time = end, !.duration_minutes = dur]

MetricRows ==
    {MetricRow(sa[1], created, sa[2], td[1], td[2], td[3]) :
        sa \in {<<"A", NoId>>, <<"A", "t1">>, <<"B", NoId>>, <<"B", "a1">>},
        created \in {0, 100, 700, 795},
        td \in {<<NoTime, NoTime, NoTime>>, <<NoTime, NoTime, 0>>, <<NoTime, NoTime, 10>>,
                <<796, NoTime, 10>>, <<796, 797, 10>>, <<796, 796, NoTime>>}}

InitMetrics ==
    /\ profiles = InitProfiles
    /\ passes \in UNION {[1..n -> MetricRows] : n \in 0..MaxRows}
    /\ now = Clock
    /\ calls = [h \in Handlers |-> Idle]

NextMetrics ==
    \/ \E token \in Tokens : get_teacher_dashboard(token)
    \/ \E token \in Tokens : get_admin_dashboard(token)

SpecMetrics == InitMetrics /\ [][NextMetrics]_vars

(***************************************************************************)
(* backend/api/v1/dashboards.py when the store fails: every metrics        *)
(* function wraps its queries in try/except. SpecOutage reads the          *)
(* dashboards while the queries of some of these functions raise.          *)
(***************************************************************************)
\* the metrics functions a dashboard calls
MetricsFunctions(endpoint) ==
    IF endpoint = "admin" THEN {"get_admin_metrics", "get_peak_request_times"}
    ELSE {"get_teacher_metrics", "get_school_teacher_averages"}

\* get_teacher_metrics with its except clause; raises: its queries fail
get_teacher_metrics_except(teacher_id, t, raises) ==
    IF raises
    THEN [week_count |-> NoTime, month_count |-> NoTime,
          avg_duration |-> NoTime, has_data |-> FALSE]
    ELSE get_teacher_metrics(teacher_id, t)

\* get_school_teacher_averages with its except clause
get_school_teacher_averages_except(school_id, t, raises) ==
    IF raises
    THEN [avg_week_count |-> NoTime, avg_month_count |-> NoTime,
          avg_duration |-> NoTime, has_data |-> FALSE]
    ELSE get_school_teacher_averages(school_id, t)

\* get_admin_metrics with its except clause
get_admin_metrics_except(school_id, t, raises) ==
    IF raises
    THEN [today_count |-> NoTime, week_count |-> NoTime, month_count |-> NoTime,
          avg_duration |-> NoTime, has_data |-> FALSE]
    ELSE get_admin_metrics(school_id, t)

\* get_peak_request_times with its except clause
get_peak_request_times_except(school_id, t, raises) ==
    IF raises THEN <<>> ELSE get_peak_request_times(school_id, t)

\* the body of get_teacher_dashboard over the functions as they return
teacher_dashboard_except(user, failing) ==
    LET teacher_metrics == get_teacher_metrics_except(user, now,
                               "get_teacher_metrics" \in failing)
        school_metrics  == get_school_teacher_averages_except(profiles[user].school_id, now,
                               "get_school_teacher_averages" \in failing)
        data_available  == teacher_metrics.has_data \/ school_metrics.has_data IN
    [code |-> HTTP_200_OK, detail |-> "ok", user_role |-> profiles[user].role,
     metrics |-> [passes_granted_week         |-> teacher_metrics.week_count,
                  passes_granted_month        |-> teacher_metrics.month_count,
                  avg_absence_duration        |-> teacher_metrics.avg_duration,
                  school_avg_passes_week      |-> int_field(school_metrics.avg_week_count),
                  school_avg_passes_month     |-> int_field(school_metrics.avg_month_count),
                  school_avg_absence_duration |-> school_metrics.avg_duration,
                  data_available              |-> data_available],
     message |-> IF data_available THEN NoId ELSE "Not Enough Data"]

\* the body of get_admin_dashboard over the functions as they return
admin_dashboard_except(user, failing) ==
    LET admin_metrics == get_admin_metrics_except(profiles[user].school_id, now,
                             "get_admin_metrics" \in failing)
        peak_times    == get_peak_request_times_except(profiles[user].school_id, now,
                             "get_peak_request_times" \in failing) IN
    [code |-> HTTP_200_OK, detail |-> "ok", user_role |-> profiles[user].role,
     metrics |-> [total_passes_today |-> admin_metrics.today_count,
                  total_passes_week  |-> admin_metrics.week_count,
                  total_passes_month |-> admin_metrics.month_count,
                  avg_pass_duration  |-> admin_metrics.avg_duration,
                  peak_request_times |-> peak_times,
                  data_available     |-> admin_metrics.has_data],
     message |-> IF admin_metrics.has_data THEN NoId ELSE "Not Enough Data"]

\* the response of a dashboard, with the functions whose queries failed
RespondedDuring(endpoint, token, failing, response) ==
    [pc |-> "responded", endpoint |-> endpoint, token |-> token,
     failing |-> failing, response |-> response]

\* GET /dashboards/teacher while the queries of the functions in failing raise
get_teacher_dashboard_outage(token, failing) ==
    LET auth == require_teacher(token) IN
    /\ calls' = [calls EXCEPT ![1] =
                    RespondedDuring("teacher", token, failing,
                                    IF auth.code # HTTP_200_OK THEN auth
                                    ELSE teacher_dashboard_except(get_user(token), failing))]
    /\ UNCHANGED <<profiles, passes, now>>

\* GET /dashboards/admin while the queries of the functions in failing raise
get_admin_dashboard_outage(token, failing) ==
    LET auth == require_admin(token) IN
    /\ calls' = [calls EXCEPT ![1] =
                    RespondedDuring("admin", token, failing,
                                    IF auth.code # HTTP_200_OK THEN auth
                                    ELSE admin_dashboard_except(get_user(token), failing))]
    /\ UNCHANGED <<profiles, passes, now>>

NextOutage ==
    \/ \E token \in Tokens, failing \in SUBSET MetricsFunctions("teacher") :
            get_teacher_dashboard_outage(token, failing)
    \/ \E token \in Tokens, failing \in SUBSET MetricsFunctions("admin") :
            get_admin_dashboard_outage(token, failing)

\* the passes table during the outage
InitOutage ==
    /\ profiles = InitProfiles
    /\ passes \in UNION {[1..n -> MetricRows] : n \in 0..MaxOutageRows}
    /\ now = Clock
    /\ calls = [h \in Handlers |-> Idle]

SpecOutage == InitOutage /\ [][NextOutage]_vars

(***************************************************************************)
(* backend/api/v1/auth.py: logout. SpecSession logs callers out while the  *)
(* store changes profiles; supabase_auth.auth.sign_out() returns or raises.*)
(***************************************************************************)
SignOut == {"returns", "raises"}

\* logout whose except clause reports the failure
logout_response_reported(sign_out) ==
    IF sign_out = "raises"
    THEN Resp(HTTP_500_INTERNAL_SERVER_ERROR, "logout_failed")
    ELSE Resp(HTTP_200_OK, "successfully_logged_out")

\* the try/except of logout: {"message": "Successfully logged out"}, or
\* {"message": "Logout completed"} from the except clause
logout_response(sign_out) ==
    IF sign_out = "raises"
    THEN Resp(HTTP_200_OK, "logout_completed")
    ELSE Resp(HTTP_200_OK, "successfully_logged_out")

\* POST /auth/logout
logout(token, sign_out) ==
    LET current_user == auth_get_current_user(token) IN
    /\ calls' = [calls EXCEPT ![1] =
                    [pc |-> "responded", endpoint |-> "logout", token |-> token,
                     sign_out |-> sign_out,
                     response |-> IF current_user.code # HTTP_200_OK THEN current_user
                                  ELSE logout_response(sign_out)]]
    /\ UNCHANGED <<profiles, passes, now>>

NextSession ==
    \/ \E token \in Tokens, sign_out \in SignOut : logout(token, sign_out)
    \/ \E u \in Users, role \in Roles, school \in {"A", "B"} : update_profile(u, role, school)

SpecSession == Init /\ [][NextSession]_vars

(***************************************************************************)
(* get_passes (GET /passes/) and get_pass (GET /passes/{id}): the reads.   *)
(* They change nothing in the store and are operators over its state.      *)
(***************************************************************************)
\* query parameters of get_passes
StatusFilters == Statuses \cup {NoId}   \* status_filter, None by default
Limits  == {1, 50}                      \* limit: Query(50, ge=1, le=100)
Offsets == {0, 1}                       \* offset: Query(0, ge=0)

\* a row as the store returns it, with its id
pass_data(i) == [id |-> i] @@ passes[i]

\* passes_scope that gives every caller the passes of the caller's school
passes_scope_school_only(c, row) == row.school_id = profiles[c].school_id

\* the filter get_passes puts on the query for the caller's role
passes_scope(c, row) ==
    IF profiles[c].role = "student"
    THEN row.student_id = c
    ELSE row.school_id = profiles[c].school_id

\* the ids the query of get_passes matches
passes_query(c, status_filter) ==
    {i \in 1..Len(passes) :
        /\ passes_scope(c, passes[i])
        /\ status_filter # NoId => passes[i].status = status_filter}

\* .order('created_at', desc=True): the store may return rows of equal
\* created_at in any order
ordered(ids) ==
    {o \in [1..Cardinality(ids) -> ids] :
        /\ \A i, j \in DOMAIN o : i # j => o[i] # o[j]
        /\ \A i, j \in DOMAIN o :
              i < j => passes[o[i]].created_at >= passes[o[j]].created_at}

\* .range(offset, offset + limit - 1) of an ordering
page(o, limit, offset) ==
    SubSeq(o, offset + 1, IF offset + limit < Len(o) THEN offset + limit ELSE Len(o))

\* the responses get_passes may give: PassListResponse(passes, total)
get_passes(c, status_filter, limit, offset) ==
    LET auth == get_current_user(c) IN
    IF auth.code # HTTP_200_OK THEN {[code |-> auth.code, passes |-> <<>>, total |-> 0]}
    ELSE {[code   |-> HTTP_200_OK,
           passes |-> [k \in DOMAIN page(o, limit, offset) |->
                          pass_data(page(o, limit, offset)[k])],
           total  |-> Len(page(o, limit, offset))] :
            o \in ordered(passes_query(c, status_filter))}

\* get_pass_permission without the check for students
get_pass_permission_staff_only(c, row) ==
    IF profiles[c].role \in {"teacher", "administrator"}
          /\ row.school_id # profiles[c].school_id
    THEN Resp(HTTP_403_FORBIDDEN, "only_your_school")
    ELSE OK

\* the permission check of get_pass
get_pass_permission(c, row) ==
    IF profiles[c].role = "student" /\ row.student_id # c
    THEN Resp(HTTP_403_FORBIDDEN, "only_your_own")
    ELSE IF profiles[c].role \in {"teacher", "administrator"}
            /\ row.school_id # profiles[c].school_id
    THEN Resp(HTTP_403_FORBIDDEN, "only_your_school")
    ELSE OK

\* the response of get_pass: an error without data, or the pass
get_pass(c, pid) ==
    LET auth == get_current_user(c) IN
    IF auth.code # HTTP_200_OK THEN [code |-> auth.code, data |-> NoId]
    ELSE IF ~Exists(pid) THEN [code |-> HTTP_404_NOT_FOUND, data |-> NoId]
    ELSE LET allowed == get_pass_permission(c, passes[pid]) IN
         IF allowed.code # HTTP_200_OK THEN [code |-> allowed.code, data |-> NoId]
         ELSE [code |-> HTTP_200_OK, data |-> pass_data(pid)]

(***************************************************************************)
(* Properties.                                                             *)
(***************************************************************************)
PassIdsNow == 1..Len(passes)

\* the passes of a student that are pending, approved or active
OpenPasses(student) ==
    {i \in PassIdsNow :
        /\ passes[i].student_id = student
        /\ passes[i].status \in {"pending", "approved", "active"}}

\* C1: with every handler atomic, every student has at most one pass that is
\* pending, approved or active, in every reachable state.
C1_OneOpenPass ==
    \A student \in Users : Cardinality(OpenPasses(student)) <= 1

\* a student who finished one pass and holds the next one
C1_Witness ==
    \E i, j \in PassIdsNow :
        /\ i # j
        /\ passes[i].student_id = passes[j].student_id
        /\ passes[i].status \in TerminalStatuses
        /\ passes[j].status \in OpenStatuses

\* C2: when the open-pass lookup and the insert of concurrent request_pass
\* calls interleave, no student ends up with two passes that are pending,
\* approved or active (at most one of the calls succeeds).
C2_NoDoubleRequest ==
    \A i, j \in PassIdsNow :
        (/\ i # j
         /\ passes[i].student_id = passes[j].student_id
         /\ passes[i].status \in OpenStatuses)
        => passes[j].status \notin OpenStatuses

\* C3: a handler's status write lands only on a pass whose status is still
\* the one the handler read.
C3_ConditionalWrite ==
    [][\A h \in Handlers :
          (/\ calls[h].pc \in {"approve_update", "activate_update"}
           /\ calls'[h].pc = "idle")
          => passes[calls[h].pid].status = calls[h].status_read]_vars

\* the status changes of the pass state machine
LegalTransitions ==
    {<<"pending", "approved">>, <<"approved", "active">>, <<"active", "completed">>,
     <<"pending", "denied">>, <<"approved", "expired">>, <<"active", "expired">>}

\* C4: with every operation atomic, each change of a pass's status is one of
\* pending->approved, approved->active, active->completed, pending->denied,
\* approved->expired, active->expired.
C4_LegalTransitions ==
    [][\A i \in PassIdsNow :
          passes'[i].status # passes[i].status
          => <<passes[i].status, passes'[i].status>> \in LegalTransitions]_vars

\* a pass that went pending -> approved -> active -> completed next to one
\* that was denied or expired
C4_Witness ==
    \E i, j \in PassIdsNow :
        /\ passes[i].status = "completed"
        /\ passes[i].approver_id # NoId
        /\ passes[i].actual_start_time # NoTime
        /\ passes[j].status \in {"denied", "expired"}

\* the response of a handler that refuses a status change
InvalidTransition(resp) ==
    /\ resp.code = HTTP_400_BAD_REQUEST
    /\ resp.detail \in {"cannot_approve", "cannot_activate", "cannot_deny",
                        "cannot_complete", "cannot_expire"}

\* a teacher or administrator of the pass's school
StaffInScope(c, i) ==
    /\ c \in DOMAIN profiles
    /\ profiles[c].role \in {"teacher", "administrator"}
    /\ profiles[c].school_id = passes[i].school_id

\* the holder of the pass, admitted by the student guard
HolderInScope(c, i) ==
    /\ c \in DOMAIN profiles
    /\ profiles[c].role \in {"student", "administrator"}
    /\ passes[i].student_id = c

Terminal(i) == passes[i].status \in {"completed", "denied", "expired"}

C5_Refused ==
    \A i \in PassIdsNow :
        Terminal(i) =>
            /\ \A c \in Users :
                  StaffInScope(c, i) =>
                      /\ InvalidTransition(approve_pass_checks(c, i))
                      /\ InvalidTransition(deny_pass_checks(c, i))
            /\ \A c \in Users :
                  HolderInScope(c, i) => InvalidTransition(activate_pass_checks(c, i))
            /\ InvalidTransition(complete_pass_checks(i))
            /\ InvalidTransition(expire_pass_checks(i))

C5_Frozen == \A i \in PassIdsNow : Terminal(i) => passes'[i] = passes[i]

\* C5: once a pass is completed, denied or expired, approve, deny, activate,
\* complete and expire on it are refused as invalid transitions, and no step
\* changes its status or any of its fields again.
C5_TerminalFinal == [](C5_Refused) /\ [][C5_Frozen]_vars

\* a finished pass, on which a teacher's approve is refused, after the clock
\* has moved on and the student has requested again
C5_Witness ==
    \E i, j \in PassIdsNow :
        /\ Terminal(i)
        /\ j > i
        /\ approve_pass_checks("t1", i) = Resp(HTTP_400_BAD_REQUEST, "cannot_approve")
        /\ activate_pass_checks(passes[i].student_id, i)
               = Resp(HTTP_400_BAD_REQUEST, "cannot_activate")

ApprovedByStaff(i) == passes[i].status = "approved" /\ passes[i].approver_id # NoId

C6_SecondRefused ==
    \A i \in PassIdsNow :
        ApprovedByStaff(i) =>
            \A c \in Users :
                StaffInScope(c, i) => InvalidTransition(approve_pass_checks(c, i))

C6_MetadataKept ==
    \A i \in PassIdsNow :
        ApprovedByStaff(i) =>
            /\ passes'[i].approver_id = passes[i].approver_id
            /\ passes'[i].approved_at = passes[i].approved_at
            /\ passes'[i].approval_notes = passes[i].approval_notes

\* C6: after approve_pass has approved a pending pass, a second approve_pass on
\* it by any teacher or administrator of the school is refused as an invalid
\* transition, and approver_id, approved_at and approval_notes keep the values
\* of the first call.
C6_ApproveOnce == [](C6_SecondRefused) /\ [][C6_MetadataKept]_vars

\* a pass approved by t1 with notes, later than it was requested, on which
\* t2's approve is refused
C6_Witness ==
    \E i \in PassIdsNow :
        /\ passes[i].status = "approved"
        /\ passes[i].approver_id = "t1"
        /\ passes[i].approval_notes = "ok"
        /\ passes[i].approved_at < now
        /\ approve_pass_checks("t2", i) = Resp(HTTP_400_BAD_REQUEST, "cannot_approve")

\* a pass requested for a location that requires approval
NeedsApproval(i) == locations[passes[i].location_id].requires_approval

C7_Completed ==
    \A i \in PassIdsNow :
        (NeedsApproval(i) /\ passes[i].status = "completed") =>
            /\ passes[i].actual_start_time # NoTime
            /\ passes[i].actual_end_time # NoTime
            /\ passes[i].actual_start_time <= passes[i].actual_end_time
            /\ passes[i].verification_code # 0

C7_CodeOnce ==
    \A i \in PassIdsNow :
        NeedsApproval(i) =>
            /\ passes[i].verification_code # 0
                   => passes'[i].verification_code = passes[i].verification_code
            /\ (passes[i].verification_code = 0 /\ passes'[i].verification_code # 0)
                   => (passes[i].status = "approved" /\ passes'[i].status = "active")

\* C7: a pass requested for an approval-required location and then approved,
\* activated and completed is completed with actual_start_time and
\* actual_end_time set, actual_start_time <= actual_end_time, and a
\* verification code that was assigned once, on activation, and kept.
C7_RoundTrip == [](C7_Completed) /\ [][C7_CodeOnce]_vars

\* a completed round trip that took time
C7_Witness ==
    \E i \in PassIdsNow :
        /\ NeedsApproval(i)
        /\ passes[i].status = "completed"
        /\ passes[i].approver_id # NoId
        /\ passes[i].actual_start_time < passes[i].actual_end_time
        /\ passes[i].verification_code # 0

\* C8: a request_pass by a student who holds a pending, approved or active
\* pass is answered with an error kind of its own, different from the one
\* that answers a request failing the location's validation.
C8_ConflictKind ==
    \A c \in Users, req1, req2 \in PassCreateRequest :
        (/\ request_pass_checks(c, req1).detail = "already_active"
         /\ request_pass_checks(c, req2).detail \in {"summons_only", "early_release_only"})
        => request_pass_checks(c, req1).code # request_pass_checks(c, req2).code

\* the row a request_pass step has inserted
Created == passes'[Len(passes')]

RequestCreates(c, req) == request_pass(c, req) /\ Len(passes') = Len(passes) + 1

\* C9 (as the code has it): a pass created by request_pass is approved, with
\* approved_at the creation time and no approval notes, when the location does
\* not require approval, and pending with no approval data when it does.
C9_InitialStatus ==
    [][\A c \in Users, req \in PassCreateRequest :
          RequestCreates(c, req) =>
              IF locations[req.location_id].requires_approval
              THEN /\ Created.status = "pending"
                   /\ Created.approved_at = NoTime
                   /\ Created.approver_id = NoId
                   /\ Created.approval_notes = NoId
              ELSE /\ Created.status = "approved"
                   /\ Created.approved_at = Created.created_at
                   /\ Created.approval_notes = NoId]_vars

\* C9 (as claimed): the auto-approved pass carries the notes "auto-approved".
C9_AutoApprovedNotes ==
    [][\A c \in Users, req \in PassCreateRequest :
          RequestCreates(c, req) =>
              IF locations[req.location_id].requires_approval
              THEN /\ Created.status = "pending"
                   /\ Created.approved_at = NoTime
                   /\ Created.approver_id = NoId
                   /\ Created.approval_notes = NoId
              ELSE /\ Created.status = "approved"
                   /\ Created.approved_at = Created.created_at
                   /\ Created.approval_notes = "auto-approved"]_vars

\* an auto-approved pass and a pending one, both as request_pass made them
C9_Witness ==
    \E i, j \in PassIdsNow :
        /\ ~NeedsApproval(i)
        /\ passes[i].status = "approved"
        /\ passes[i].approved_at = passes[i].created_at
        /\ NeedsApproval(j)
        /\ passes[j].status = "pending"
        /\ passes[j].approved_at = NoTime

\* C10: for every pass, approver_id is set if and only if approved_at is set.
C10_ApproverWithApprovedAt ==
    \A i \in PassIdsNow :
        (passes[i].approver_id # NoId) <=> (passes[i].approved_at # NoTime)

\* a teacher or administrator, as the staff guard admits them
IsStaff(c) ==
    c \in DOMAIN profiles /\ profiles[c].role \in {"teacher", "administrator"}

\* the students of a school who hold no pending, approved or active pass
FreeStudents(school) ==
    {u \in DOMAIN profiles :
        /\ profiles[u].role = "student"
        /\ profiles[u].school_id = school
        /\ OpenPasses(u) = {}}

\* C11: issue_pass by a teacher or administrator, for a location of their
\* school and a student of that school who holds no open pass, succeeds (and
\* creates an approved pass stamped with the issuing staff member).
C11_IssueSucceeds ==
    \A c \in Users, req \in PassCreateRequest :
        (/\ IsStaff(c)
         /\ req.location_id \in LocationIds
         /\ locations[req.location_id].school_id = profiles[c].school_id
         /\ FreeStudents(profiles[c].school_id) # {})
        => issue_pass_checks(c, req).code = HTTP_200_OK

\* C12: every pass request_pass has created is for a location that belongs
\* to the requesting student's school and has is_active = true.
C12_ActiveLocationOfSchool ==
    \A i \in PassIdsNow :
        /\ locations[passes[i].location_id].school_id
               = profiles[passes[i].student_id].school_id
        /\ locations[passes[i].location_id].is_active

\* the response of request_pass to a request that misses a special flag
ValidationError(resp) ==
    /\ resp.code = HTTP_400_BAD_REQUEST
    /\ resp.detail \in {"summons_only", "early_release_only"}

\* a request that lacks the flag its location demands
MissesFlag(req) ==
    /\ req.location_id \in LocationIds
    /\ \/ locations[req.location_id].is_summons_only /\ ~req.is_summons
       \/ locations[req.location_id].is_early_release_only /\ ~req.is_early_release

C13_Rejected ==
    \A c \in Users, req \in PassCreateRequest :
        (/\ require_student_role(c).code = HTTP_200_OK
         /\ MissesFlag(req)
         /\ locations[req.location_id].school_id = profiles[c].school_id)
        => ValidationError(request_pass_checks(c, req))

C13_NoneCreated ==
    \A c \in Users, req \in PassCreateRequest :
        (request_pass(c, req) /\ MissesFlag(req)) => passes' = passes

C13_FlagsKept ==
    \A i \in PassIdsNow :
        /\ locations[passes[i].location_id].is_summons_only => passes[i].is_summons
        /\ locations[passes[i].location_id].is_early_release_only
               => passes[i].is_early_release

\* C13: a request_pass for a summons-only location without the summons flag,
\* or for an early-release-only location without the early-release flag, is
\* answered with the validation error and creates no pass, so every pass for
\* such a location carries its flag.
C13_SpecialLocations ==
    [](C13_Rejected /\ C13_FlagsKept) /\ [][C13_NoneCreated]_vars

\* a flagged early-release pass that has run its course, while an unflagged
\* request for the exit and one for the office are being refused
C13_Witness ==
    \E i \in PassIdsNow, req1, req2 \in PassCreateRequest :
        /\ passes[i].location_id = "exit" /\ passes[i].is_early_release
        /\ passes[i].status \in TerminalStatuses
        /\ req1.location_id = "exit" /\ ~req1.is_early_release
        /\ request_pass_checks("s1", req1)
               = Resp(HTTP_400_BAD_REQUEST, "early_release_only")
        /\ req2.location_id = "office" /\ ~req2.is_summons
        /\ request_pass_checks("s1", req2) = Resp(HTTP_400_BAD_REQUEST, "summons_only")

\* C14: the school_id of every created pass is the school_id of the profile
\* its student_id names and of the location its location_id names.
C14_OneSchool ==
    \A i \in PassIdsNow :
        /\ passes[i].school_id = profiles[passes[i].student_id].school_id
        /\ passes[i].school_id = locations[passes[i].location_id].school_id

\* passes of both schools side by side
C14_Witness ==
    \E i, j \in PassIdsNow :
        /\ passes[i].school_id = "A" /\ passes[i].student_id = "s1"
        /\ passes[j].school_id = "B" /\ passes[j].location_id = "gymB"

\* a pass that has been activated carries the stamp of its activation
WasActive(i) == passes[i].actual_start_time # NoTime

C15_CodeIffActivated ==
    \A i \in PassIdsNow :
        /\ passes[i].verification_code # 0 <=> WasActive(i)
        /\ passes[i].status \in {"active", "completed"} => WasActive(i)
        /\ passes[i].status \in {"pending", "approved", "denied"} => ~WasActive(i)
        /\ \A j \in PassIdsNow :
              (j # i /\ passes[i].verification_code # 0)
              => passes[j].verification_code # passes[i].verification_code

C15_CodeStep ==
    \A i \in PassIdsNow :
        /\ passes[i].verification_code # 0
               => passes'[i].verification_code = passes[i].verification_code
        /\ passes'[i].verification_code # passes[i].verification_code
               <=> (passes[i].status # "active" /\ passes'[i].status = "active")

\* C15: a pass carries a verification code if and only if it has been
\* activated; the code is assigned by the step that makes the pass active,
\* never changes afterwards, and no two passes carry the same code.
C15_VerificationCode == [](C15_CodeIffActivated) /\ [][C15_CodeStep]_vars

\* two activated passes with their codes, one of them finished, next to
\* nothing else: the second code was drawn after the first
C15_Witness ==
    \E i, j \in PassIdsNow :
        /\ i < j
        /\ passes[i].status \in {"completed", "expired"}
        /\ passes[i].verification_code # 0
        /\ passes[j].status = "active"
        /\ passes[j].verification_code # 0
        /\ passes[j].verification_code # passes[i].verification_code

\* the caller is the student the pass names, and the pass is approved
MayActivate(c, pid) ==
    /\ Exists(pid)
    /\ passes[pid].student_id = c
    /\ passes[pid].status = "approved"

C16_Guard ==
    \A c \in Users, pid \in PassIds :
        activate_pass_checks(c, pid).code = HTTP_200_OK <=> MayActivate(c, pid)

C16_Step ==
    \A c \in Users, pid \in PassIds :
        activate_pass(c, pid) =>
            IF MayActivate(c, pid)
            THEN /\ passes'[pid].status = "active"
                 /\ passes'[pid].actual_start_time = now
                 /\ \A j \in PassIdsNow : j # pid => passes'[j] = passes[j]
            ELSE passes' = passes

\* C16: activate_pass succeeds exactly when the caller is the student named
\* by the pass's student_id and the pass is approved; it then makes that pass
\* active and stamps actual_start_time with the current time, and otherwise
\* fails and leaves every pass unchanged.
C16_ActivateOwnApproved == [](C16_Guard) /\ [][C16_Step]_vars

\* s1's pass activated some time after it was made, next to an approved pass
\* of another holder that s1 is refused to activate
C16_Witness ==
    \E i, j \in PassIdsNow :
        /\ passes[i].student_id = "s1"
        /\ passes[i].status = "active"
        /\ passes[i].actual_start_time > passes[i].created_at
        /\ passes[j].student_id # "s1"
        /\ passes[j].status = "approved"
        /\ activate_pass_checks("s1", j).code # HTTP_200_OK

\* the caller is staff of the pass's school, and the pass is pending
MayApprove(c, pid) ==
    /\ Exists(pid)
    /\ IsStaff(c)
    /\ passes[pid].school_id = profiles[c].school_id
    /\ passes[pid].status = "pending"

C17_Guard ==
    \A c \in Users, pid \in PassIds :
        approve_pass_checks(c, pid).code = HTTP_200_OK <=> MayApprove(c, pid)

C17_Step ==
    \A c \in Users, pid \in PassIds, notes \in Notes :
        approve_pass(c, pid, notes) =>
            IF MayApprove(c, pid)
            THEN /\ passes'[pid] = [passes[pid] EXCEPT !.status = "approved",
                                                       !.approver_id = c,
                                                       !.approved_at = now,
                                                       !.approval_notes = notes]
                 /\ \A j \in PassIdsNow : j # pid => passes'[j] = passes[j]
            ELSE passes' = passes

\* C17: approve_pass succeeds exactly when the caller is a teacher or
\* administrator of the pass's school and the pass is pending; it then sets
\* status approved, approver_id to the caller, approved_at to the current
\* time and the given notes, and otherwise leaves every pass unchanged.
C17_ApproveOwnSchoolPending == [](C17_Guard) /\ [][C17_Step]_vars

\* a pass of school A approved by t1 with notes, next to a pending pass of
\* school B that t1 is refused to approve
C17_Witness ==
    \E i, j \in PassIdsNow :
        /\ passes[i].school_id = "A"
        /\ passes[i].status = "approved"
        /\ passes[i].approver_id = "t1"
        /\ passes[i].approval_notes = "ok"
        /\ passes[j].school_id = "B"
        /\ passes[j].status = "pending"
        /\ approve_pass_checks("t1", j).code # HTTP_200_OK

C18_Guard ==
    \A c \in Users, pid \in PassIds :
        deny_pass_checks(c, pid).code = HTTP_200_OK <=> MayApprove(c, pid)

C18_Step ==
    /\ \A c \in Users, pid \in PassIds :
          (DenyPass(c, pid) /\ MayApprove(c, pid)) => passes'[pid].status = "denied"
    /\ \A i \in PassIdsNow :
          (passes'[i].status = "denied" /\ passes[i].status # "denied")
          => passes[i].status = "pending"

\* C18: DenyPass succeeds exactly when the caller is a teacher or
\* administrator of the pass's school and the pass is pending; it then makes
\* the pass denied, and no pass becomes denied from any other status.
C18_DenyPending == [](C18_Guard) /\ [][C18_Step]_vars

\* a pass denied by staff, and the holder's next, approved pass on which a
\* deny is refused
C18_Witness ==
    \E i, j \in PassIdsNow :
        /\ passes[i].status = "denied"
        /\ passes[j].student_id = passes[i].student_id
        /\ passes[j].status = "approved"
        /\ deny_pass_checks("t1", j) = Resp(HTTP_400_BAD_REQUEST, "cannot_deny")

\* the clock is past the pass's end time and its school's grace period
Overdue(i) ==
    now > (IF passes[i].actual_end_time # NoTime
           THEN passes[i].actual_end_time
           ELSE passes[i].requested_end_time)
          + (IF passes[i].school_id = "A" THEN 0 ELSE 1)

C19_Guard ==
    \A pid \in PassIds :
        expire_pass_checks(pid).code = HTTP_200_OK
        <=> (/\ Exists(pid)
             /\ passes[pid].status \in {"approved", "active"}
             /\ Overdue(pid))

C19_Step ==
    \A i \in PassIdsNow :
        (passes'[i].status = "expired" /\ passes[i].status # "expired")
        => (passes[i].status \in {"approved", "active"} /\ Overdue(i))

C20_ForbiddenOrNotFound ==
    /\ \A c \in Users, i \in PassIdsNow :
          (require_student_role(c).code = HTTP_200_OK /\ passes[i].student_id # c)
          => activate_pass_checks(c, i).code = HTTP_403_FORBIDDEN
    /\ \A c \in Users, i \in PassIdsNow :
          (IsStaff(c) /\ passes[i].school_id # profiles[c].school_id)
          => approve_pass_checks(c, i).code = HTTP_403_FORBIDDEN
    /\ \A c \in Users, pid \in PassIds \ PassIdsNow :
          /\ require_student_role(c).code = HTTP_200_OK
                 => activate_pass_checks(c, pid).code = HTTP_404_NOT_FOUND
          /\ IsStaff(c) => approve_pass_checks(c, pid).code = HTTP_404_NOT_FOUND

\* an endpoint has answered in this step
Answered == calls'[1] # calls[1] /\ calls'[1].pc = "responded"

\* the answering endpoint's caller has a profile
AnsweredWithProfile == Answered /\ get_user(calls'[1].token) \in DOMAIN profiles

C21_Authorize ==
    \A r \in Roles, R \in SUBSET Roles :
        /\ role_dependency(R, r).code = HTTP_200_OK <=> (r = "administrator" \/ r \in R)
        /\ role_dependency(R, r).code # HTTP_200_OK
               => /\ role_dependency(R, r).code = HTTP_403_FORBIDDEN
                  /\ role_dependency(R, r).detail.user_role = r
        /\ role_allowed(R, r) <=> (r = "administrator" \/ r \in R)

C21_Endpoints ==
    AnsweredWithProfile =>
        LET r == profiles[calls'[1].token].role
            R == calls'[1].required_roles IN
        /\ calls'[1].response.code = HTTP_200_OK <=> (r = "administrator" \/ r \in R)
        /\ calls'[1].response.code # HTTP_200_OK
               => calls'[1].response.detail.user_role = r

ExpectedStatus(endpoint, r) ==
    CASE endpoint = "student-only" -> IF r = "student" THEN 200 ELSE 403
      [] endpoint = "teacher-only" -> IF r = "student" THEN 403 ELSE 200
      [] endpoint = "admin-only"   -> IF r = "administrator" THEN 200 ELSE 403

AdmittedStatus(endpoint, r) ==
    CASE endpoint = "student-only" -> IF r \in {"student", "administrator"} THEN 200 ELSE 403
      [] endpoint = "teacher-only" -> IF r = "student" THEN 403 ELSE 200
      [] endpoint = "admin-only"   -> IF r = "administrator" THEN 200 ELSE 403

Dashboard(r) ==
    CASE r = "administrator" -> "/api/v1/dashboard/admin"
      [] r = "teacher"       -> "/api/v1/dashboard/teacher"
      [] r = "student"       -> "/api/v1/dashboard/student"

\* C23: every authorization denial carries the caller's role, the required
\* roles and a suggested next action, the dashboard endpoint of the caller's
\* own role.
C23_StructuredDenial ==
    [][(AnsweredWithProfile /\ calls'[1].response.code = HTTP_403_FORBIDDEN) =>
          LET detail == calls'[1].response.detail IN
          /\ detail.user_role = profiles[calls'[1].token].role
          /\ detail.required_roles = calls'[1].required_roles
          /\ "suggested_redirect" \in DOMAIN detail
          /\ detail.suggested_redirect = Dashboard(profiles[calls'[1].token].role)]_vars

\* C24: on every guarded endpoint, the answer to a verified identity without
\* a profile differs in kind (HTTP status) from the answer to an invalid or
\* expired credential and from the answer to a role denial.
C24_ProfileNotFoundDistinct ==
    \A missing \in Users \ DOMAIN profiles :
        /\ \A bad \in Tokens \ Users :
              /\ auth_get_current_user(missing).code # auth_get_current_user(bad).code
              /\ get_current_user_token(missing).code # get_current_user_token(bad).code
        /\ \A r \in Roles \ {"administrator"} :
              /\ auth_get_current_user(missing).code # role_dependency({}, r).code
              /\ get_current_user_token(missing).code # role_dependency({}, r).code

C25_Guard ==
    \A c \in DOMAIN profiles, pid \in PassIds :
        /\ profiles[c].role = "student"
               => approve_pass_checks(c, pid).code = HTTP_403_FORBIDDEN
        /\ (Exists(pid) /\ passes[pid].status = "pending")
               => (approve_pass_checks(c, pid).code = HTTP_200_OK
                   <=> (/\ profiles[c].role \in {"teacher", "administrator"}
                        /\ profiles[c].school_id = passes[pid].school_id))

C25_Step ==
    \A i \in PassIdsNow :
        (passes[i].status = "pending" /\ passes'[i].status = "approved") =>
            /\ passes'[i].approver_id \in DOMAIN profiles
            /\ profiles[passes'[i].approver_id].role \in {"teacher", "administrator"}
            /\ profiles[passes'[i].approver_id].school_id = passes[i].school_id

\* C25: a request is authorized against the role and school the profile
\* holds at the time of the request: after the store changes them, the next
\* approve_pass by that principal is decided by the new values (a teacher
\* made a student is denied, a pass is approved only by who is then staff of
\* its school).
C25_RefreshedPerRequest == [](C25_Guard) /\ [][C25_Step]_vars

\* t1 approved a pass as a teacher, has since been made a student, and is
\* now denied on a pending pass
C25_Witness ==
    \E i, j \in PassIdsNow :
        /\ passes[i].approver_id = "t1"
        /\ profiles["t1"].role = "student"
        /\ passes[j].status = "pending"
        /\ approve_pass_checks("t1", j).code = HTTP_403_FORBIDDEN

\* a dashboard has answered 200 in this step
Served(endpoint) ==
    /\ Answered
    /\ calls'[1].endpoint = endpoint
    /\ calls'[1].response.code = HTTP_200_OK

\* the school of the caller the dashboard has answered
ServedSchool == profiles[get_user(calls'[1].token)].school_id

\* the rows of a school created in the trailing 30 days
MonthRows(school) ==
    SelectSeq(passes, LAMBDA row : /\ row.school_id = school
                                   /\ row.created_at # NoTime
                                   /\ row.created_at >= now - MonthDays * HoursPerDay)

\* C26: when the school has no pass created in the trailing 30 days, the
\* administrator metrics have data_available = false and today, week and
\* month count and the average duration all null, none of them 0.
C26_NoDataAllNull ==
    [][(Served("admin") /\ MonthRows(ServedSchool) = <<>>) =>
          LET metrics == calls'[1].response.metrics IN
          /\ metrics.data_available = FALSE
          /\ metrics.total_passes_today = NoTime
          /\ metrics.total_passes_week = NoTime
          /\ metrics.total_passes_month = NoTime
          /\ metrics.avg_pass_duration = NoTime]_vars

\* what a row adds to the duration average: the observed duration when both
\* actual times are present, else the stored duration_minutes when present
\* (0 included), else nothing
RECURSIVE Contributions(_)
Contributions(rows) ==
    IF rows = <<>> THEN <<>>
    ELSE LET row == Head(rows) IN
         IF row.actual_start_time # NoTime /\ row.actual_end_time # NoTime
         THEN <<(row.actual_end_time - row.actual_start_time) * MinutesPerHour>>
              \o Contributions(Tail(rows))
         ELSE IF row.duration_minutes # NoTime
         THEN <<row.duration_minutes>> \o Contributions(Tail(rows))
         ELSE Contributions(Tail(rows))

\* C27: the average duration is the mean of the contributions of the passes
\* in the window (observed duration, else stored duration_minutes, 0
\* included), reported whenever at least one pass contributes, and every pass
\* in the window is counted in the month count.
C27_DurationAverage ==
    [][Served("admin") =>
          LET metrics == calls'[1].response.metrics
              rows    == MonthRows(ServedSchool)
              contrib == Contributions(rows) IN
          /\ metrics.total_passes_month = Len(rows)
          /\ contrib = <<>> => metrics.avg_pass_duration = NoTime
          /\ contrib # <<>> =>
                 metrics.avg_pass_duration
                     = (2 * Sum(contrib) * 100 + Len(contrib)) \div (2 * Len(contrib))]_vars

\* the teachers of a school who have approved a pass
ApprovingTeachers(school) ==
    {u \in DOMAIN profiles :
        /\ profiles[u].school_id = school
        /\ profiles[u].role = "teacher"
        /\ \E i \in PassIdsNow : passes[i].approver_id = u}

\* the passes approved by teachers of a school since a time
ApprovedSince(school, since) ==
    SelectSeq(passes, LAMBDA row :
        /\ row.approver_id \in {u \in DOMAIN profiles : /\ profiles[u].school_id = school
                                                       /\ profiles[u].role = "teacher"}
        /\ row.approved_at # NoTime
        /\ row.approved_at >= since)

Divisor(school) ==
    IF ApprovingTeachers(school) = {} THEN 1 ELSE Cardinality(ApprovingTeachers(school))

\* C28: the school-wide per-teacher week and month averages (kept to one
\* decimal) are the number of passes approved in the window divided by the
\* number of distinct teachers of the school who have ever approved a pass
\* (at least 1).
C28_PerTeacherAverage ==
    [][Served("teacher") =>
          LET averages == get_school_teacher_averages(ServedSchool, now)
              week     == Len(ApprovedSince(ServedSchool, now - WeekDays * HoursPerDay))
              month    == Len(ApprovedSince(ServedSchool, now - MonthDays * HoursPerDay))
              quotient(count) ==
                  (2 * count * 10 + Divisor(ServedSchool)) \div (2 * Divisor(ServedSchool)) IN
          /\ week > 0 => averages.avg_week_count = quotient(week)
          /\ month > 0 => averages.avg_month_count = quotient(month)]_vars

\* C29: the teacher metrics have data_available = false whenever no teacher
\* of the school has approved any pass, whoever calls the teacher dashboard.
C29_NoTeacherApprovals ==
    [][(Served("teacher") /\ ApprovingTeachers(ServedSchool) = {}) =>
          calls'[1].response.metrics.data_available = FALSE]_vars

\* C30: peak_request_times has at most 5 entries with distinct hours in
\* 0..23, each with the number of the school's passes created in that hour in
\* the trailing 30 days, in descending order of count and, among equal counts,
\* in ascending order of hour, whatever the order of the rows in the store.
C30_PeakHours ==
    [][Served("admin") =>
          LET peak == calls'[1].response.metrics.peak_request_times
              rows == MonthRows(ServedSchool)
              n(h) == Len(SelectSeq(rows, LAMBDA row : row.created_at % HoursPerDay = h)) IN
          /\ Len(peak) <= TopHours
          /\ \A i \in 1..Len(peak) :
                /\ peak[i].hour \in 0..(HoursPerDay - 1)
                /\ peak[i].count = n(peak[i].hour)
                /\ peak[i].count > 0
          /\ \A i, j \in 1..Len(peak) :
                i < j => \/ peak[i].count > peak[j].count
                         \/ /\ peak[i].count = peak[j].count
                            /\ peak[i].hour < peak[j].hour
          /\ \A h \in 0..(HoursPerDay - 1) :
                (n(h) > 0 /\ \A i \in 1..Len(peak) : peak[i].hour # h)
                => /\ Len(peak) = TopHours
                   /\ \A i \in 1..Len(peak) :
                         \/ peak[i].count > n(h)
                         \/ peak[i].count = n(h) /\ peak[i].hour < h]_vars

\* a dashboard has answered a caller its guard admits while the queries of
\* at least one of its metrics functions failed
AnsweredDuringOutage ==
    /\ Answered
    /\ "failing" \in DOMAIN calls'[1]
    /\ calls'[1].failing # {}
    /\ calls'[1].response.code \notin {HTTP_401_UNAUTHORIZED, HTTP_403_FORBIDDEN}

\* C31: when a store query fails while the teacher or the administrator
\* metrics are computed, the caller gets an error, never a normal result
\* (null fields with data_available = false, or an empty peak-hours list).
C31_StoreFailureSurfaces ==
    [][AnsweredDuringOutage => calls'[1].response.code # HTTP_200_OK]_vars

\* logout has answered a caller whose credential and profile were found
LoggedOut ==
    /\ Answered
    /\ calls'[1].endpoint = "logout"
    /\ auth_get_current_user(calls'[1].token).code = HTTP_200_OK

\* C32: logout by an authenticated caller returns success whether the
\* session revoke at the identity provider returns or raises; a failed revoke
\* is never reported to the caller as an error.
C32_LogoutSucceeds ==
    [][LoggedOut =>
          /\ calls'[1].response.code = HTTP_200_OK
          /\ calls'[1].response.detail \in {"successfully_logged_out", "logout_completed"}]_vars

\* teacher t1 has logged out while the revoke raised, and was told success
C32_Witness ==
    /\ calls[1].pc = "responded"
    /\ calls[1].endpoint = "logout"
    /\ calls[1].token = "t1"
    /\ calls[1].sign_out = "raises"
    /\ calls[1].response.code = HTTP_200_OK

\* a handler has inserted a pass in this step
Inserted == Len(passes') = Len(passes) + 1

C33_EndFromStart ==
    \A i \in PassIdsNow :
        passes[i].requested_end_time =
            passes[i].requested_start_time + locations[passes[i].location_id].default_duration

C33_StartStep ==
    Inserted =>
        \A c \in Users, req \in PassCreateRequest :
            (request_pass(c, req) \/ issue_pass(c, req)) =>
                LET row == Created IN
                /\ row.requested_start_time =
                       (IF req.requested_start_time # NoTime
                        THEN req.requested_start_time ELSE row.created_at)
                /\ row.requested_end_time =
                       row.requested_start_time + locations[req.location_id].default_duration

\* C33: every pass created by request_pass or issue_pass has
\* requested_end_time = requested_start_time + the location's default
\* duration, where requested_start_time is the start given in the request,
\* or the creation time when none is given.
C33_RequestedEndTime == [](C33_EndFromStart) /\ [][C33_StartStep]_vars

\* two passes exist: one whose start was given in the request and lies before
\* its creation, one that starts when it was created; each ends one default
\* duration later
C33_Witness ==
    \E i, j \in PassIdsNow :
        /\ passes[i].requested_start_time < passes[i].created_at
        /\ passes[i].requested_end_time = passes[i].requested_start_time + 1
        /\ passes[j].requested_start_time = passes[j].created_at
        /\ passes[j].location_id = "exit"
        /\ passes[j].requested_end_time = passes[j].created_at + 2

\* the pass is in the read scope of the caller: the caller's own for a
\* student, of the caller's school for staff
InScope(c, row) ==
    /\ profiles[c].role = "student" => row.student_id = c
    /\ profiles[c].role \in {"teacher", "administrator"}
           => row.school_id = profiles[c].school_id

\* C34: reading passes is scoped to the caller: a student's list holds only
\* passes whose student_id is the caller, the list of a teacher or an
\* administrator only passes of the caller's school, and reading a single
\* pass outside that scope is answered Forbidden with no pass data.
C34_ReadsScoped ==
    /\ \A c \in DOMAIN profiles, f \in StatusFilters, limit \in Limits, offset \in Offsets :
          \A response \in get_passes(c, f, limit, offset) :
              \A k \in DOMAIN response.passes :
                  /\ InScope(c, response.passes[k])
                  /\ response.passes[k] = pass_data(response.passes[k].id)
    /\ \A c \in DOMAIN profiles, pid \in PassIdsNow :
          IF InScope(c, passes[pid])
          THEN get_pass(c, pid) = [code |-> HTTP_200_OK, data |-> pass_data(pid)]
          ELSE get_pass(c, pid) = [code |-> HTTP_403_FORBIDDEN, data |-> NoId]

\* s1 and another student of s1's school each hold a pass: s1's list has
\* s1's pass alone, a teacher of the school lists both, and s1 is refused the
\* other student's pass
C34_Witness ==
    \E i, j \in PassIdsNow, t \in DOMAIN profiles :
        /\ passes[i].student_id = "s1" /\ profiles["s1"].role = "student"
        /\ passes[j].student_id # "s1"
        /\ passes[j].school_id = profiles["s1"].school_id
        /\ \A response \in get_passes("s1", NoId, 50, 0) :
              response.total = 1 /\ response.passes[1].id = i
        /\ profiles[t].role = "teacher"
        /\ \E response \in get_passes(t, NoId, 50, 0) : response.total = 2
        /\ get_pass("s1", j).code = HTTP_403_FORBIDDEN

\* the error answers of the lifecycle handlers: forbidden, not found, and
\* bad request (validation, conflict, invalid transition)
ErrorCodes == {HTTP_403_FORBIDDEN, HTTP_404_NOT_FOUND, HTTP_400_BAD_REQUEST}

\* C35: a request_pass, issue_pass, approve_pass or activate_pass call that
\* is answered with an error (not found, forbidden, validation, conflict or
\* invalid transition) leaves the set of passes and every field of every
\* pass unchanged.
C35_ErrorsChangeNothing ==
    [][passes' # passes =>
          /\ \A c \in Users, req \in PassCreateRequest :
                /\ request_pass_checks(c, req).code \in ErrorCodes => ~request_pass(c, req)
                /\ issue_pass_checks(c, req).code \in ErrorCodes => ~issue_pass(c, req)
          /\ \A c \in Users, pid \in PassIds :
                /\ activate_pass_checks(c, pid).code \in ErrorCodes => ~activate_pass(c, pid)
                /\ approve_pass_checks(c, pid).code \in ErrorCodes
                       => \A notes \in Notes : ~approve_pass(c, pid, notes)]_vars

\* s1 holds an active pass that t1 approved; a further request by s1 is a
\* conflict, approving or activating the pass again an invalid transition, an
\* unknown location and a pass of another school not found, a summons-only
\* location a validation error, and a student approving is forbidden
C35_Witness ==
    \E i \in PassIdsNow, req \in PassCreateRequest :
        /\ passes[i].student_id = "s1"
        /\ passes[i].status = "active"
        /\ passes[i].approver_id = "t1"
        /\ req.location_id = "hall"
        /\ request_pass_checks("s1", req) = Resp(HTTP_400_BAD_REQUEST, "already_active")
        /\ approve_pass_checks("t2", i) = Resp(HTTP_400_BAD_REQUEST, "cannot_approve")
        /\ activate_pass_checks("s1", i) = Resp(HTTP_400_BAD_REQUEST, "cannot_activate")
        /\ approve_pass_checks("a1", i).code = HTTP_404_NOT_FOUND
        /\ approve_pass_checks("s1", i).code = HTTP_403_FORBIDDEN
        /\ issue_pass_checks("s1", req).code = HTTP_403_FORBIDDEN

\* C36: the student_id of every pass names a principal whose role was
\* student when the pass was created: no teacher and no administrator
\* creates a pass whose student_id is their own id.
C36_HolderIsStudent ==
    [][Inserted =>
          /\ Created.student_id \in DOMAIN profiles
          /\ profiles[Created.student_id].role = "student"]_vars

\* one step takes the open pass i towards a terminal status: a pending pass
\* can be denied, an approved pass activated by its holder, an active pass
\* completed
CanAdvance(i) ==
    CASE passes[i].status = "pending" ->
             ENABLED (\E c \in Users : DenyPass(c, i) /\ passes'[i].status = "denied")
      [] passes[i].status = "approved" ->
             ENABLED (activate_pass(passes[i].student_id, i) /\ passes'[i].status = "active")
      [] passes[i].status = "active" ->
             ENABLED (CompletePass(i) /\ passes'[i].status = "completed")
      [] OTHER -> TRUE

\* a caller of the student guard who holds no open pass has a request that
\* passes every check, and that creates a pass while the table has room
CanRequest(c) ==
    /\ \E req \in PassCreateRequest : request_pass_checks(c, req).code = HTTP_200_OK
    /\ Len(passes) < MaxPasses
           => ENABLED (\E req \in PassCreateRequest :
                          /\ request_pass(c, req)
                          /\ Len(passes') = Len(passes) + 1
                          /\ passes'[Len(passes')].student_id = c)

=============================================================================
